---- MODULE Spec2Model ----
(***************************************************************************)
(* Model of SQATestSuiteInterface                                          *)
(* (ingestion/src/metadata/data_quality/interface/sqlalchemy/              *)
(*  sqa_test_suite_interface.py).                                          *)
(*                                                                         *)
(* One interface instance at a time is followed through its constructor    *)
(* (__init__, one step per statement), its public operations               *)
(* (run_test_case, one step per statement of the try block and one for the *)
(* except clause; create_session; the sample / runner / sampler / table    *)
(* accessors) and the teardown.  Collaborators that live outside the file  *)
(* (catalog client, validator registry, sampler factory, validators) are   *)
(* the environment: each call to one of them either returns or raises.     *)
(***************************************************************************)
EXTENDS Integers, Sequences, FiniteSets, TLC

(***************************************************************************)
(* Bounds of the model.                                                    *)
(***************************************************************************)
MaxSessions == 2    \* sessions ever opened in one behaviour
MaxDraws    == 2    \* invocations of random_sample in one behaviour
MaxParams   == 3    \* length of a test case's parameterValues

(***************************************************************************)
(* Program constants.                                                      *)
(***************************************************************************)
TEN_MIN == 600      \* seconds; metadata.utils.constants.TEN_MIN

\* durations (seconds) of the query a validation issues: fast, exactly at
\* the limit, and the 15 minute query of the timeout scenario
QueryDurations == {5, TEN_MIN, 900}

(***************************************************************************)
(* Values.  Every Python object is a record with a "kind" field so that    *)
(* any two values can be compared.                                         *)
(***************************************************************************)
Unset   == [kind |-> "unset"]      \* attribute not assigned yet
NoneVal == [kind |-> "None"]       \* Python None
NoExc   == "none"                  \* no exception pending

Session(i) == [kind |-> "Session", id |-> i]
OrmTable   == [kind |-> "OrmTable", name |-> "orders"]
TableConfig == [kind |-> "TableConfig", sample_query |-> "none",
                sample_config |-> "percentage_10", partition_config |-> "none"]

\* the exceptions the collaborators raise; all are subclasses of Exception
ExceptionKinds == {"ConnectionError", "ConversionError", "ConfigError",
                   "UnsupportedDialectError", "SamplingError", "RuntimeError",
                   "AttributeError",
                   "CatalogError", "ResolutionError",
                   "ParameterResolutionError", "ValidatorInitError",
                   "ValidatorError", "TimeoutError"}

VARIABLES
    pc,            \* position of the single thread of control
    inst,          \* attributes of the instance under construction / in use
    visible,       \* the caller holds a reference to the instance
    closed,        \* the instance was torn down
    nSessions,     \* sessions opened so far (ids 1..nSessions)
    openSessions,  \* ids of the sessions opened and not released
    draws,         \* invocations of sampler.random_sample() so far
    ctorExc,       \* exception the last constructor call raised
    params,        \* test_case.parameterValues of each test case object
    tc,            \* test case of the current / last run_test_case call
    paramsBefore,  \* its parameterValues when the call started
    trace,         \* collaborator calls made by the current / last call
    exc,           \* exception pending in the try block
    TestHandler,   \* validator class resolved by the call
    setter,        \* runtime parameter setter built by the call
    runtime_params,\* value get_parameters returned
    test_handler,  \* validator instance built by the call
    query,         \* the query the validation issued through the runner
    outcome,       \* how the call ended
    lastLog,       \* record the current / last call wrote with logger.error
    everFailed,    \* some earlier run_test_case call raised
    everTimedOut,  \* some earlier query hit the timeout
    seenSample,    \* sample the validators of earlier calls were given
    setterReturned,\* per test case: calls in which get_parameters returned
    ret            \* what the last accessor read gave the caller

vars == <<pc, inst, visible, closed, nSessions, openSessions, draws, ctorExc,
          params, tc, paramsBefore, trace, exc, TestHandler, setter,
          runtime_params, test_handler, query, outcome, lastLog, everFailed,
          everTimedOut, seenSample, setterReturned, ret>>

instVars == <<inst, visible, closed, nSessions, openSessions, draws, ctorExc>>
callVars == <<params, tc, paramsBefore, trace, exc, TestHandler, setter,
              runtime_params, test_handler, query, outcome, lastLog,
              everFailed, everTimedOut, seenSample, setterReturned>>

NoOutcome == [kind |-> "none"]
NoQuery   == [kind |-> "none"]
NoLog     == [kind |-> "none"]
NoRet     == [kind |-> "none"]

FreshInstance == [session |-> Unset, table |-> Unset, table_config |-> Unset,
                  sampler |-> Unset, runner |-> Unset]

(***************************************************************************)
(* Test cases handed to run_test_case and the catalog / registry they are  *)
(* resolved against.                                                       *)
(***************************************************************************)
TestCases == {"tc_notnull", "tc_diff", "tc_unknown"}

testDefinition(t) ==
    CASE t = "tc_notnull" -> [id |-> 1, fullyQualifiedName |-> "columnValuesToBeNotNull"]
      [] t = "tc_diff"    -> [id |-> 2, fullyQualifiedName |-> "tableDiff"]
      [] OTHER            -> [id |-> 3, fullyQualifiedName |-> "noSuchValidator"]

InitialParams(t) ==
    CASE t = "tc_notnull" -> <<[name |-> "columnName", value |-> "order_id"]>>
      [] t = "tc_diff"    -> <<[name |-> "table2", value |-> "orders_v2"]>>
      [] OTHER            -> <<>>

Init ==
    /\ pc = "new"
    /\ inst = FreshInstance
    /\ visible = FALSE
    /\ closed = FALSE
    /\ nSessions = 0
    /\ openSessions = {}
    /\ draws = 0
    /\ ctorExc = NoExc
    /\ params = [t \in TestCases |-> InitialParams(t)]
    /\ tc = "none"
    /\ paramsBefore = <<>>
    /\ trace = <<>>
    /\ exc = NoExc
    /\ TestHandler = NoneVal
    /\ setter = NoneVal
    /\ runtime_params = NoneVal
    /\ test_handler = NoneVal
    /\ query = NoQuery
    /\ outcome = NoOutcome
    /\ lastLog = NoLog
    /\ everFailed = FALSE
    /\ everTimedOut = FALSE
    /\ seenSample = NoneVal
    /\ setterReturned = [t \in TestCases |-> 0]
    /\ ret = NoRet

(***************************************************************************)
(* __init__                                                                *)
(***************************************************************************)
\* a constructor that swallows the exception and hands out the object
init_raise_swallowed(e) ==
    /\ pc' = "ready"
    /\ ctorExc' = e
    /\ visible' = TRUE

\* an exception leaves __init__: nothing catches it, the constructor call
\* raises and the caller gets no reference to the object
init_raise(e) ==
    /\ pc' = "ctor_raised"
    /\ ctorExc' = e
    /\ visible' = FALSE

\* the last statement of __init__ completed: the caller gets the instance
init_return ==
    /\ pc' = "ready"
    /\ ctorExc' = NoExc
    /\ visible' = TRUE

\* a constructor call starts (lines 57-59 store the arguments)
init_begin ==
    /\ pc \in {"new", "ctor_raised"}
    /\ nSessions < MaxSessions
    /\ pc' = "init_create_session"
    /\ inst' = FreshInstance
    /\ ctorExc' = NoExc
    /\ closed' = FALSE
    /\ UNCHANGED <<visible, nSessions, openSessions, draws, ret>>
    /\ UNCHANGED callVars

\* create_session: self.session = create_and_bind_session(...)
create_session(i) == [i EXCEPT !.session = Session(nSessions + 1)]

\* line 60
init_create_session ==
    /\ pc = "init_create_session"
    /\ \/ /\ inst' = create_session(inst)
          /\ nSessions' = nSessions + 1
          /\ openSessions' = openSessions \cup {nSessions + 1}
          /\ pc' = "init_convert_table"
          /\ UNCHANGED <<visible, ctorExc>>
       \/ /\ init_raise("ConnectionError")
          /\ UNCHANGED <<inst, nSessions, openSessions>>
    /\ UNCHANGED <<closed, draws, ret>>
    /\ UNCHANGED callVars

\* line 61
init_convert_table ==
    /\ pc = "init_convert_table"
    /\ \/ /\ inst' = [inst EXCEPT !.table = OrmTable]
          /\ pc' = "init_get_table_config"
          /\ UNCHANGED <<visible, ctorExc>>
       \/ /\ init_raise("ConversionError")
          /\ UNCHANGED inst
    /\ UNCHANGED <<closed, nSessions, openSessions, draws, ret>>
    /\ UNCHANGED callVars

\* lines 63-67
init_get_table_config ==
    /\ pc = "init_get_table_config"
    /\ \/ /\ inst' = [inst EXCEPT !.table_config = TableConfig]
          /\ pc' = "init_create_sampler"
          /\ UNCHANGED <<visible, ctorExc>>
       \/ /\ init_raise("ConfigError")
          /\ UNCHANGED inst
    /\ UNCHANGED <<closed, nSessions, openSessions, draws, ret>>
    /\ UNCHANGED callVars

\* _create_sampler: what sampler_factory_.create(...) is called with
create_sampler(i) ==
    [kind |-> "Sampler", client |-> i.session, table |-> i.table,
     table_config |-> i.table_config]

\* line 69; the factory returns a sampler, returns nothing, or raises
init_create_sampler ==
    /\ pc = "init_create_sampler"
    /\ \/ /\ \E s \in {create_sampler(inst), NoneVal} :
                inst' = [inst EXCEPT !.sampler = s]
          /\ pc' = "init_create_runner"
          /\ UNCHANGED <<visible, ctorExc>>
       \/ /\ init_raise("UnsupportedDialectError")
          /\ UNCHANGED inst
    /\ UNCHANGED <<closed, nSessions, openSessions, draws, ret>>
    /\ UNCHANGED callVars

\* sampler.random_sample(): the n-th invocation yields the n-th sample
random_sample(n) == [kind |-> "Sample", draw |-> n]

\* a sample property that falls back to an empty sample
sample_or_empty(i) ==
    IF i.sampler \in {Unset, NoneVal}
    THEN [raised |-> NoExc, value |-> [kind |-> "Sample", draw |-> 0],
          drawn |-> 0]
    ELSE [raised |-> NoExc, value |-> random_sample(draws + 1), drawn |-> 1]

\* a sample property that hands out the sample the runner already holds
sample_cached(i) ==
    IF i.sampler = Unset
    THEN [raised |-> "AttributeError", value |-> NoneVal, drawn |-> 0]
    ELSE IF i.sampler = NoneVal
    THEN [raised |-> "RuntimeError", value |-> NoneVal, drawn |-> 0]
    ELSE IF i.runner.kind = "QueryRunner"
    THEN [raised |-> NoExc, value |-> i.runner.sample, drawn |-> 0]
    ELSE [raised |-> NoExc, value |-> random_sample(draws + 1), drawn |-> 1]

\* the sample property (lines 84-89) read on instance i
sample(i) ==
    IF i.sampler = Unset
    THEN [raised |-> "AttributeError", value |-> NoneVal, drawn |-> 0]
    ELSE IF i.sampler = NoneVal
    THEN [raised |-> "RuntimeError", value |-> NoneVal, drawn |-> 0]
    ELSE [raised |-> NoExc, value |-> random_sample(draws + 1), drawn |-> 1]

\* a runner built without the cls_timeout wrapper
create_runner_unbounded(i, smp) ==
    [kind |-> "QueryRunner", session |-> i.session, table |-> i.table,
     sample |-> smp, timeout |-> 0]

\* _create_runner given the sample read at line 140
create_runner(i, smp) ==
    [kind |-> "QueryRunner", session |-> i.session, table |-> i.table,
     sample |-> smp, timeout |-> TEN_MIN]

\* line 70
init_create_runner ==
    /\ pc = "init_create_runner"
    /\ draws < MaxDraws
    /\ LET r == sample(inst) IN
       \/ /\ r.raised = NoExc
          /\ draws' = draws + r.drawn
          /\ inst' = [inst EXCEPT !.runner = create_runner(inst, r.value)]
          /\ init_return
       \/ /\ r.raised = NoExc
          /\ draws' = draws + r.drawn
          /\ init_raise("SamplingError")
          /\ UNCHANGED inst
       \/ /\ r.raised # NoExc
          /\ init_raise(r.raised)
          /\ UNCHANGED <<inst, draws>>
    /\ UNCHANGED <<closed, nSessions, openSessions, ret>>
    /\ UNCHANGED callVars

(***************************************************************************)
(* Collaborators of run_test_case.                                         *)
(***************************************************************************)
\* ometa_client.get_by_id(TestDefinition, id).entityType.value
entityType(id) == IF id = 1 THEN "COLUMN" ELSE "TABLE"

\* import_test_case_class(entity_type, "sqlalchemy", fqn): the validator
\* class registered under the key, or no class
import_test_case_class(etype, fqn) ==
    CASE etype = "COLUMN" /\ fqn = "columnValuesToBeNotNull" ->
            [kind |-> "ValidatorClass", name |-> fqn,
             runtime_parameter_setter |-> FALSE]
      [] etype = "TABLE" /\ fqn = "tableDiff" ->
            [kind |-> "ValidatorClass", name |-> fqn,
             runtime_parameter_setter |-> TRUE]
      [] OTHER -> NoneVal

\* values a runtime parameter setter computes from live data
RuntimeParamValues == {"rp_a", "rp_b"}

\* runtime_params.model_dump_json()
model_dump_json(rp) == [kind |-> "json", of |-> rp]

\* TestCaseParameterValue(name="runtimeParams", value=...)
TestCaseParameterValue(rp) ==
    [name |-> "runtimeParams", value |-> model_dump_json(rp)]

\* int(datetime.now().timestamp() * 1000)
Timestamps == {1000, 2000}

\* a call made through the runner, taking d seconds when left alone: the
\* wrapper cls_timeout put on the runner ends it at the deadline
timed_call(runner, d) ==
    IF runner.kind # "QueryRunner"
    THEN [raised |-> "AttributeError", elapsed |-> 0]
    ELSE IF runner.timeout > 0 /\ d > runner.timeout
    THEN [raised |-> "TimeoutError", elapsed |-> runner.timeout]
    ELSE [raised |-> NoExc, elapsed |-> d]

(***************************************************************************)
(* run_test_case                                                           *)
(***************************************************************************)
\* a failure that is noted while the call goes on to build the validator
try_raise_and_go_on(e) ==
    /\ exc' = e
    /\ pc' = "rtc_construct"

\* a failure after which the call starts over from the catalog lookup
try_raise_and_retry(e) ==
    /\ exc' = NoExc
    /\ pc' = "rtc_get_by_id"

\* a statement of the try block raised e: control goes to the except clause
try_raise(e) ==
    /\ exc' = e
    /\ pc' = "rtc_except"

\* the caller invokes run_test_case(test_case)
run_test_case_begin ==
    /\ pc = "ready"
    /\ visible
    /\ \E t \in TestCases :
          /\ Len(params[t]) < MaxParams
          /\ tc' = t
          /\ paramsBefore' = params[t]
    /\ pc' = "rtc_get_by_id"
    /\ trace' = <<>>
    /\ exc' = NoExc
    /\ TestHandler' = NoneVal
    /\ setter' = NoneVal
    /\ runtime_params' = NoneVal
    /\ test_handler' = NoneVal
    /\ query' = NoQuery
    /\ outcome' = NoOutcome
    /\ lastLog' = NoLog
    /\ seenSample' = IF /\ test_handler.kind = "Validator"
                        /\ test_handler.runner.kind = "QueryRunner"
                     THEN test_handler.runner.sample ELSE seenSample
    /\ ret' = NoRet
    /\ UNCHANGED <<params, everFailed, everTimedOut, setterReturned>>
    /\ UNCHANGED instVars

\* a resolution that never consults runtime_parameter_setter
after_resolve_no_setter(cls) == "rtc_construct"

\* where control goes once the validator class is resolved (line 168)
after_resolve(cls) ==
    IF cls.runtime_parameter_setter THEN "rtc_setter" ELSE "rtc_construct"

\* lines 160-166: catalog lookup, then validator resolution
rtc_resolve ==
    /\ pc = "rtc_get_by_id"
    /\ \/ /\ trace' = Append(trace, "get_by_id")
          /\ try_raise("CatalogError")
          /\ UNCHANGED TestHandler
       \/ LET d   == testDefinition(tc)
              cls == import_test_case_class(entityType(d.id), d.fullyQualifiedName)
          IN  /\ trace' = trace \o <<"get_by_id", "import_test_case_class">>
              /\ IF cls = NoneVal
                 THEN try_raise("ResolutionError") /\ UNCHANGED TestHandler
                 ELSE /\ TestHandler' = cls
                      /\ pc' = after_resolve(cls)
                      /\ UNCHANGED exc
    /\ UNCHANGED <<params, tc, paramsBefore, setter, runtime_params,
                   test_handler, query, outcome, lastLog, everFailed,
                   everTimedOut, seenSample, setterReturned, ret>>
    /\ UNCHANGED instVars

\* lines 169-174: the setter is built with the client, the connection
\* configuration, the table entity and the sampler
rtc_setter ==
    /\ pc = "rtc_setter"
    /\ trace' = Append(trace, "runtime_parameter_setter")
    /\ \/ /\ setter' = [kind |-> "Setter", sampler |-> inst.sampler]
          /\ pc' = "rtc_get_parameters"
          /\ UNCHANGED exc
       \/ /\ try_raise("ParameterResolutionError")
          /\ UNCHANGED setter
    /\ UNCHANGED <<params, tc, paramsBefore, TestHandler, runtime_params,
                   test_handler, query, outcome, lastLog, everFailed,
                   everTimedOut, seenSample, setterReturned, ret>>
    /\ UNCHANGED instVars

\* line 175
rtc_get_parameters ==
    /\ pc = "rtc_get_parameters"
    /\ trace' = Append(trace, "get_parameters")
    /\ \/ /\ \E v \in RuntimeParamValues :
                runtime_params' = [kind |-> "RuntimeParams", value |-> v]
          /\ setterReturned' = [setterReturned EXCEPT ![tc] = @ + 1]
          /\ pc' = "rtc_append"
          /\ UNCHANGED exc
       \/ /\ try_raise("ParameterResolutionError")
          /\ UNCHANGED <<runtime_params, setterReturned>>
    /\ UNCHANGED <<params, tc, paramsBefore, TestHandler, setter,
                   test_handler, query, outcome, lastLog, everFailed,
                   everTimedOut, seenSample, ret>>
    /\ UNCHANGED instVars

\* an insertion of the entry in front of the caller's parameters
append_in_front(ps, entry) == <<entry>> \o ps

\* an append that first drops the entries of the same name
append_replacing(ps, entry) ==
    SelectSeq(ps, LAMBDA x : x.name # entry.name) \o <<entry>>

\* test_case.parameterValues.append(entry)
append(ps, entry) == Append(ps, entry)

\* lines 176-180
rtc_append ==
    /\ pc = "rtc_append"
    /\ trace' = Append(trace, "append")
    /\ params' = [params EXCEPT
                    ![tc] = append(@, TestCaseParameterValue(runtime_params))]
    /\ pc' = "rtc_construct"
    /\ UNCHANGED <<tc, paramsBefore, exc, TestHandler, setter, runtime_params,
                   test_handler, query, outcome, lastLog, everFailed,
                   everTimedOut, seenSample, setterReturned, ret>>
    /\ UNCHANGED instVars

\* a runner accessor that wraps a newly drawn sample on every read
runner_resampled(i) ==
    IF i.runner.kind = "QueryRunner"
    THEN [i.runner EXCEPT !.sample = random_sample(draws + 1)]
    ELSE i.runner

\* the runner property (line 98)
runner(i) == i.runner

\* lines 182-186
rtc_construct ==
    /\ pc = "rtc_construct"
    /\ trace' = Append(trace, "TestHandler")
    /\ \/ /\ \E ts \in Timestamps :
                test_handler' = [kind |-> "Validator", cls |-> TestHandler.name,
                                 runner |-> runner(inst), test_case |-> tc,
                                 parameterValues |-> params[tc],
                                 execution_date |-> ts]
          /\ pc' = "rtc_run_validation"
          /\ UNCHANGED exc
       \/ /\ try_raise("ValidatorInitError")
          /\ UNCHANGED test_handler
    /\ UNCHANGED <<params, tc, paramsBefore, TestHandler, setter,
                   runtime_params, query, outcome, lastLog, everFailed,
                   everTimedOut, seenSample, setterReturned, ret>>
    /\ UNCHANGED instVars

\* return test_handler.run_validation()
rtc_return(status) ==
    /\ outcome' = [kind |-> "return",
                   result |-> [kind |-> "TestCaseResult", status |-> status,
                               timestamp |-> test_handler.execution_date]]
    /\ pc' = "ready"

\* line 187: the validator issues its query through the runner it was
\* given and turns the answer into a result, or fails on its own
rtc_run_validation ==
    /\ pc = "rtc_run_validation"
    /\ trace' = Append(trace, "run_validation")
    /\ \E d \in QueryDurations, v \in {"Success", "Failed", "raise"} :
          LET q == timed_call(test_handler.runner, d) IN
          /\ query' = [kind |-> "query", duration |-> d, elapsed |-> q.elapsed,
                       raised |-> q.raised]
          /\ everTimedOut' = (everTimedOut \/ q.raised = "TimeoutError")
          /\ IF q.raised # NoExc
             THEN try_raise(q.raised) /\ UNCHANGED outcome
             ELSE IF v = "raise"
             THEN try_raise("ValidatorError") /\ UNCHANGED outcome
             ELSE rtc_return(v) /\ UNCHANGED exc
    /\ UNCHANGED <<params, tc, paramsBefore, TestHandler, setter,
                   runtime_params, test_handler, lastLog, everFailed, seenSample, setterReturned, ret>>
    /\ UNCHANGED instVars

\* an except clause that names only the resolution failures
caught_resolution_only(e) == e \in {"CatalogError", "ResolutionError"}

\* `except Exception` matches e
caught(e) == e \in ExceptionKinds

\* an except clause that also drops the runner of the instance
after_except_drop_runner(i) == [i EXCEPT !.runner = NoneVal]

\* the instance after the except clause ran: the clause assigns nothing
after_except(i) == i

\* an except clause that logs the error and returns nothing
except_outcome_none(e) == [kind |-> "return", result |-> NoneVal]

\* line 192: raise RuntimeError(err)
except_outcome(e) == [kind |-> "raise", type |-> "RuntimeError", cause |-> e]

\* lines 188-192
rtc_except ==
    /\ pc = "rtc_except"
    /\ IF caught(exc)
       THEN /\ trace' = Append(trace, "logger.error")
            /\ lastLog' = [kind |-> "error",
                           name |-> testDefinition(tc).fullyQualifiedName,
                           err |-> exc]
            /\ outcome' = except_outcome(exc)
       ELSE /\ outcome' = [kind |-> "raise", type |-> exc, cause |-> NoExc]
            /\ UNCHANGED <<trace, lastLog>>
    /\ inst' = after_except(inst)
    /\ everFailed' = TRUE
    /\ pc' = "ready"
    /\ UNCHANGED <<params, tc, paramsBefore, exc, TestHandler, setter,
                   runtime_params, test_handler, query, everTimedOut, seenSample, setterReturned, ret>>
    /\ UNCHANGED <<visible, closed, nSessions, openSessions, draws, ctorExc>>

(***************************************************************************)
(* Other public operations on a constructed instance.                      *)
(***************************************************************************)
\* the caller invokes create_session() again
call_create_session ==
    /\ pc = "ready"
    /\ visible
    /\ nSessions < MaxSessions
    /\ \/ /\ inst' = create_session(inst)
          /\ nSessions' = nSessions + 1
          /\ openSessions' = openSessions \cup {nSessions + 1}
          /\ ret' = [kind |-> "create_session", raised |-> NoExc]
       \/ /\ ret' = [kind |-> "create_session", raised |-> "ConnectionError"]
          /\ UNCHANGED <<inst, nSessions, openSessions>>
    /\ UNCHANGED <<pc, visible, closed, draws, ctorExc>>
    /\ UNCHANGED callVars

\* the caller reads <instance>.sample
read_sample ==
    /\ pc = "ready"
    /\ visible
    /\ draws < MaxDraws
    /\ LET r == sample(inst) IN
          /\ draws' = draws + r.drawn
          /\ ret' = [kind |-> "sample", raised |-> r.raised, value |-> r.value]
    /\ UNCHANGED <<pc, inst, visible, closed, nSessions, openSessions, ctorExc>>
    /\ UNCHANGED callVars

\* the caller reads <instance>.runner
read_runner ==
    /\ pc = "ready"
    /\ visible
    /\ ret' = [kind |-> "runner", raised |-> NoExc, value |-> runner(inst)]
    /\ UNCHANGED instVars
    /\ UNCHANGED <<pc>>
    /\ UNCHANGED callVars

\* the caller reads <instance>.sampler (line 107)
read_sampler ==
    /\ pc = "ready"
    /\ visible
    /\ ret' = [kind |-> "sampler", raised |-> NoExc, value |-> inst.sampler]
    /\ UNCHANGED instVars
    /\ UNCHANGED <<pc>>
    /\ UNCHANGED callVars

\* the caller reads <instance>.table (line 116)
read_table ==
    /\ pc = "ready"
    /\ visible
    /\ ret' = [kind |-> "table", raised |-> NoExc, value |-> inst.table]
    /\ UNCHANGED instVars
    /\ UNCHANGED <<pc>>
    /\ UNCHANGED callVars

\* teardown of the interface: the session is released and the instance is
\* Closed
close ==
    /\ pc = "ready"
    /\ visible
    /\ ~closed
    /\ closed' = TRUE
    /\ openSessions' = openSessions \ {inst.session.id}
    /\ ret' = [kind |-> "close", raised |-> NoExc]
    /\ UNCHANGED <<pc, inst, visible, nSessions, draws, ctorExc>>
    /\ UNCHANGED callVars

Next ==
    \/ init_begin
    \/ init_create_session
    \/ init_convert_table
    \/ init_get_table_config
    \/ init_create_sampler
    \/ init_create_runner
    \/ run_test_case_begin
    \/ rtc_resolve
    \/ rtc_setter
    \/ rtc_get_parameters
    \/ rtc_append
    \/ rtc_construct
    \/ rtc_run_validation
    \/ rtc_except
    \/ call_create_session
    \/ read_sample
    \/ read_runner
    \/ read_sampler
    \/ read_table
    \/ close

Spec == Init /\ [][Next]_vars

(***************************************************************************)
(* Properties.                                                             *)
(***************************************************************************)
InTrace(x) == \E k \in 1..Len(trace) : trace[k] = x
Count(x)   == Cardinality({k \in 1..Len(trace) : trace[k] = x})
Pos(x)     == CHOOSE k \in 1..Len(trace) : trace[k] = x

RtcPcs == {"rtc_get_by_id", "rtc_setter", "rtc_get_parameters", "rtc_append",
           "rtc_construct", "rtc_run_validation", "rtc_except"}
InitPcs == {"init_create_session", "init_convert_table",
            "init_get_table_config", "init_create_sampler",
            "init_create_runner"}

\* a run_test_case call has ended and nothing else was started since
CallEnded == pc = "ready" /\ outcome.kind # "none"

\* C1: an exception raised at any step of run_test_case reaches the except
\* clause, is logged with the fully-qualified name of the test and leaves
\* the call as a RuntimeError carrying the original exception; no call ends
\* with another kind of error, and no pending exception is swallowed.
C1_UniformError ==
    /\ CallEnded /\ exc # NoExc =>
          /\ outcome = [kind |-> "raise", type |-> "RuntimeError", cause |-> exc]
          /\ lastLog = [kind |-> "error",
                        name |-> testDefinition(tc).fullyQualifiedName,
                        err |-> exc]
    /\ outcome.kind = "raise" =>
          /\ outcome.type = "RuntimeError"
          /\ outcome.cause = exc
          /\ exc # NoExc
    /\ pc = "rtc_except" => exc # NoExc /\ outcome.kind = "none"

\* a validation that hit the timeout surfaced as the uniform error
C1_Witness ==
    /\ CallEnded
    /\ outcome.kind = "raise"
    /\ outcome.cause = "TimeoutError"
    /\ lastLog.kind = "error"
    /\ lastLog.name = "tableDiff"

\* C2: the except clause leaves the instance as it was and the instance
\* callable again; a validation whose query is fast and whose validator
\* does not fail returns a TestCaseResult, also after earlier calls raised.
C2_NotPoisoned ==
    [][ /\ pc = "rtc_except" =>
              /\ pc' = "ready"
              /\ inst' = inst
              /\ visible' = visible
              /\ closed' = closed
        /\ ( /\ pc = "rtc_run_validation"
             /\ query'.duration <= TEN_MIN
             /\ exc' # "ValidatorError" ) =>
              /\ outcome'.kind = "return"
              /\ outcome'.result.kind = "TestCaseResult"
              /\ pc' = "ready"
      ]_vars

\* a call returned its result after an earlier call on the instance raised
C2_Witness ==
    /\ CallEnded
    /\ everFailed
    /\ outcome.kind = "return"
    /\ visible

\* C3: the caller holds the instance only when every attribute is set and
\* the runner holds a sample; while the constructor runs and after it
\* raised the caller holds nothing.
C3_AllOrNothing ==
    /\ visible =>
          /\ inst.session.kind = "Session"
          /\ inst.table.kind = "OrmTable"
          /\ inst.sampler.kind = "Sampler"
          /\ inst.runner.kind = "QueryRunner"
          /\ inst.runner.sample.kind = "Sample"
          /\ pc \notin InitPcs \cup {"new", "ctor_raised"}
    /\ pc \in InitPcs \cup {"ctor_raised"} => ~visible

\* the constructor raised with session, table and sampler already set
C3_Witness ==
    /\ pc = "ctor_raised"
    /\ inst.sampler.kind = "Sampler"
    /\ inst.runner = Unset
    /\ ~visible

\* the validator class the call resolved declares a runtime parameter setter
DeclaresSetter ==
    /\ TestHandler.kind = "ValidatorClass"
    /\ TestHandler.runtime_parameter_setter

\* C4: when the resolved validator declares a runtime parameter setter, by
\* the time the validator is constructed exactly one entry named
\* runtimeParams was appended to the test case's parameters, the append
\* came before the construction and the validator was built on the
\* parameters containing the entry; when the setter raised, nothing was
\* appended, no validator was constructed and no validation ran.
C4_RuntimeParams ==
    /\ DeclaresSetter /\ InTrace("TestHandler") =>
          /\ Count("append") = 1
          /\ Pos("append") < Pos("TestHandler")
          /\ params[tc] =
                Append(paramsBefore, TestCaseParameterValue(runtime_params))
          /\ params[tc][Len(params[tc])].name = "runtimeParams"
    /\ DeclaresSetter /\ test_handler.kind = "Validator" =>
          /\ test_handler.test_case = tc
          /\ test_handler.parameterValues =
                Append(paramsBefore, TestCaseParameterValue(runtime_params))
    /\ exc = "ParameterResolutionError" =>
          /\ params[tc] = paramsBefore
          /\ ~InTrace("append")
          /\ ~InTrace("TestHandler")
          /\ ~InTrace("run_validation")
          /\ test_handler = NoneVal

\* a validator with a setter was built on a test case that already carried
\* an entry of an earlier call, and its validation returned
C4_Witness ==
    /\ CallEnded
    /\ DeclaresSetter
    /\ outcome.kind = "return"
    /\ Len(paramsBefore) = 2
    /\ Len(test_handler.parameterValues) = 3

\* C5: the runner holds the sample drawn by the constructor and keeps it;
\* every validator is given that sample, the same as the validators of the
\* earlier calls, and no step of run_test_case invokes random_sample.
C5_SampleReused ==
    [][ /\ pc = "init_create_runner" /\ pc' = "ready" =>
              /\ draws' = draws + 1
              /\ inst'.runner.sample = random_sample(draws')
        /\ visible /\ visible' => inst'.runner.sample = inst.runner.sample
        /\ pc = "rtc_construct" /\ pc' = "rtc_run_validation" =>
              /\ test_handler'.runner.sample = inst.runner.sample
              /\ seenSample # NoneVal =>
                    test_handler'.runner.sample = seenSample
        /\ pc \in RtcPcs \/ pc' \in RtcPcs => draws' = draws
      ]_vars

\* a second validator was built after the sample accessor drew again
C5_Witness ==
    /\ test_handler.kind = "Validator"
    /\ seenSample # NoneVal
    /\ draws > test_handler.runner.sample.draw

\* C6: a query issued through the runner never runs past TEN_MIN; one that
\* would take longer ends with TimeoutError, which run_test_case surfaces
\* inside the RuntimeError without a result, and a later query within the
\* limit on the same runner goes through.
C6_Timeout ==
    /\ query.kind = "query" =>
          /\ query.elapsed <= TEN_MIN
          /\ query.duration > TEN_MIN => query.raised = "TimeoutError"
          /\ query.duration <= TEN_MIN => query.raised = NoExc
    /\ query.kind = "query" /\ query.duration > TEN_MIN /\ pc = "ready" =>
          outcome = [kind |-> "raise", type |-> "RuntimeError",
                     cause |-> "TimeoutError"]
    /\ everTimedOut /\ visible =>
          /\ inst.runner.kind = "QueryRunner"
          /\ inst.runner.timeout = TEN_MIN

\* a fast query returned its result after an earlier one hit the timeout
C6_Witness ==
    /\ CallEnded
    /\ everTimedOut
    /\ query.kind = "query"
    /\ query.duration <= TEN_MIN
    /\ outcome.kind = "return"

\* C7: on an instance the caller holds, the session is the one the runner
\* and the sampler were built on during construction.
C7_Claim ==
    visible =>
       /\ inst.runner.session = inst.session
       /\ inst.sampler.client = inst.session

\* C8: on a Closed instance the session is released, and a run_test_case
\* call makes no collaborator call and fails with InvalidStateError.
C8_Claim ==
    closed /\ pc \in RtcPcs =>
       /\ trace = <<>>
       /\ pc = "rtc_except" => exc = "InvalidStateError"

\* C9: once the constructor has raised, the session it opened is released.
C9_Claim ==
    pc = "ctor_raised" /\ inst.session.kind = "Session" =>
       inst.session.id \notin openSessions

IsPrefix(p, q) ==
    /\ Len(p) <= Len(q)
    /\ \A k \in 1..Len(p) : q[k] = p[k]

\* C11: during and after every run_test_case call the parameters the test
\* case had when the call started are a prefix of its parameters (same
\* names, values and order), whether the call returns or raises; the call
\* touches no other test case's parameters, and when no validator was
\* resolved or the resolved one declares no setter they are unchanged.
C11_AppendOnly ==
    [][ /\ tc' # "none" => IsPrefix(paramsBefore', params'[tc'])
        /\ \A t \in TestCases :
              params'[t] # params[t] =>
                 /\ t = tc
                 /\ pc \in RtcPcs
                 /\ IsPrefix(params[t], params'[t])
        /\ tc' # "none" /\ ~DeclaresSetter' => params'[tc'] = paramsBefore'
      ]_vars

\* a call appended to a test case that carried parameters and then raised
C11_Witness ==
    /\ CallEnded
    /\ outcome.kind = "raise"
    /\ InTrace("append")
    /\ Len(paramsBefore) >= 1
    /\ Len(params[tc]) = Len(paramsBefore) + 1

\* C12: a run_test_case call that has ended either returned a
\* TestCaseResult, after exactly one validation run and with no exception
\* pending, or raised; it never returned nothing, and while the call runs
\* there is no outcome yet.
C12_OneOutcome ==
    /\ pc \in RtcPcs => outcome.kind = "none"
    /\ CallEnded =>
          \/ /\ outcome.kind = "return"
             /\ outcome.result.kind = "TestCaseResult"
             /\ outcome.result.status \in {"Success", "Failed"}
             /\ Count("run_validation") = 1
             /\ exc = NoExc
          \/ /\ outcome.kind = "raise"
             /\ exc # NoExc
             /\ Count("run_validation") <= 1
    /\ pc = "ready" /\ tc # "none" => outcome.kind # "none"

\* a call returned the result of its one validation run
C12_Witness ==
    /\ CallEnded
    /\ outcome.kind = "return"
    /\ outcome.result.status = "Failed"
    /\ Count("run_validation") = 1

\* the collaborator calls of one run_test_case call, in program order
StepOrder(withSetter) ==
    <<"get_by_id", "import_test_case_class">>
    \o (IF withSetter
        THEN <<"runtime_parameter_setter", "get_parameters", "append">>
        ELSE <<>>)
    \o <<"TestHandler", "run_validation">>

\* the trace without the record of the except clause
TryTrace == SelectSeq(trace, LAMBDA x : x # "logger.error")

\* the steps at which exception e is raised
RaisedBy(e) ==
    CASE e = "CatalogError"             -> {"get_by_id"}
      [] e = "ResolutionError"          -> {"import_test_case_class"}
      [] e = "ParameterResolutionError" -> {"runtime_parameter_setter",
                                            "get_parameters"}
      [] e = "ValidatorInitError"       -> {"TestHandler"}
      [] OTHER                          -> {"run_validation"}

\* C13: the collaborator calls of a run_test_case call are an initial part
\* of: catalog lookup, validator resolution, (with a setter: setter,
\* get_parameters, append), validator construction, validation; the
\* validator is bound to the instance's runner and a timestamp; a failing
\* step is the last one made, control goes to the except clause, and after
\* a catalog or resolution failure no setter, validator or query exists.
C13_StepOrder ==
    /\ \E w \in BOOLEAN : IsPrefix(TryTrace, StepOrder(w))
    /\ TestHandler.kind = "ValidatorClass" =>
          IsPrefix(TryTrace, StepOrder(TestHandler.runtime_parameter_setter))
    /\ CallEnded /\ outcome.kind = "return" => TryTrace = StepOrder(DeclaresSetter)
    /\ test_handler.kind = "Validator" =>
          /\ test_handler.runner = inst.runner
          /\ test_handler.execution_date \in Timestamps
    /\ exc # NoExc =>
          /\ pc \in {"rtc_except", "ready"}
          /\ TryTrace # <<>>
          /\ TryTrace[Len(TryTrace)] \in RaisedBy(exc)
    /\ exc \in {"CatalogError", "ResolutionError"} =>
          /\ setter = NoneVal
          /\ test_handler = NoneVal
          /\ query = NoQuery
          /\ ~InTrace("runtime_parameter_setter")
          /\ ~InTrace("TestHandler")
          /\ ~InTrace("run_validation")

\* a call on a test without a registered validator stopped at the
\* resolution
C13_Witness ==
    /\ CallEnded
    /\ exc = "ResolutionError"
    /\ trace = <<"get_by_id", "import_test_case_class", "logger.error">>

\* C14: in one run_test_case call every collaborator is called at most
\* once, and a call that raised made its failing step once and wrote one
\* log record.
C14_NoRetry ==
    /\ \A x \in {"get_by_id", "import_test_case_class",
                 "runtime_parameter_setter", "get_parameters", "append",
                 "TestHandler", "run_validation", "logger.error"} :
          Count(x) <= 1
    /\ CallEnded /\ outcome.kind = "raise" =>
          /\ \E x \in RaisedBy(exc) : Count(x) = 1
          /\ Count("logger.error") = 1
          /\ trace[Len(trace)] = "logger.error"

\* a call whose validation failed ended with every step made once
C14_Witness ==
    /\ CallEnded
    /\ outcome.kind = "raise"
    /\ exc = "ValidatorError"
    /\ Count("run_validation") = 1
    /\ Count("get_by_id") = 1

\* the entries of ps named runtimeParams
RuntimeEntries(ps) == SelectSeq(ps, LAMBDA x : x.name = "runtimeParams")

\* C15: except between get_parameters returning and the append that
\* follows it, every test case object carries one runtimeParams entry per
\* run_test_case call on it in which the setter returned, also when the
\* call raised afterwards; entries are never removed.
C15_OneEntryPerCall ==
    [][ /\ \A t \in TestCases :
              pc' # "rtc_append" \/ tc' # t =>
                 Len(RuntimeEntries(params'[t])) = setterReturned'[t]
        /\ pc' = "rtc_append" =>
              Len(RuntimeEntries(params'[tc'])) + 1 = setterReturned'[tc']
        /\ \A t \in TestCases :
              Len(RuntimeEntries(params'[t])) >= Len(RuntimeEntries(params[t]))
      ]_vars

\* two calls on the same test case appended, and the second then raised
C15_Witness ==
    /\ CallEnded
    /\ outcome.kind = "raise"
    /\ InTrace("append")
    /\ setterReturned[tc] = 2
    /\ Len(RuntimeEntries(params[tc])) = 2

\* C16: every read of the sample property on a constructed instance
\* invokes random_sample once more and hands out what it returned, as the
\* read made by _create_runner during construction did, and leaves the
\* runner and the sample it holds as they were.
C16_SampleNotCached ==
    [][ /\ ( /\ pc = "ready" /\ pc' = "ready"
             /\ ret'.kind = "sample" /\ ret' # ret ) =>
              /\ ret'.raised = NoExc
              /\ draws' = draws + 1
              /\ ret'.value = random_sample(draws')
              /\ inst'.runner = inst.runner
              /\ inst'.runner.sample = inst.runner.sample
        /\ pc = "init_create_runner" /\ pc' = "ready" =>
              /\ draws' = draws + 1
              /\ inst'.runner.sample = random_sample(draws')
        /\ ret.kind = "sample" /\ visible /\ ret.raised = NoExc =>
              ret.value.draw > inst.runner.sample.draw
      ]_vars

\* the caller read the sample of a constructed instance
C16_Witness ==
    /\ visible
    /\ ret.kind = "sample"
    /\ ret.raised = NoExc
    /\ ret.value = random_sample(draws)
    /\ draws > inst.runner.sample.draw
====
